---- MODULE Spec2Model ----
(***************************************************************************)
(* A model of src/cloneNode.ts: the recursive cloning pipeline that turns  *)
(* a live document subtree into a detached replica.                        *)
(*                                                                         *)
(* The document is a store of node records (`dom`).  The source nodes are  *)
(* the ids 1..MaxNodes; every node the pipeline constructs gets the next   *)
(* free id.  There is one cloneNode promise chain per source node, `pc`    *)
(* says which link of it runs next, and every link that changes state is   *)
(* one action.                                                             *)
(***************************************************************************)
EXTENDS Integers, Sequences, FiniteSets, TLC

\* ------------------------------------------------------------------ bounds
MaxNodes == 4      \* number of source nodes of the document

Nodes == 1..MaxNodes
Root == 1
Null == 0

\* ----------------------------------------------------------------- strings
\* Text is a sequence of characters, so that parsing is a real conversion.
Lt == <<"&", "l", "t", ";">>
Amp == <<"&", "a", "m", "p", ";">>
Markup == <<"m">>
CssText == "computed"

\* A computed style: its serialized text (empty on a host that has none), its
\* declared properties, the five values cloneCSSStyle reads, the width in
\* hundredths of a pixel. PlainStyle needs no patch.
ComputedStyle(cssText, props, clip, font, width, align, persp) ==
  [cssText |-> cssText, props |-> props, webkitBackgroundClip |-> clip,
   fontFeatureSettings |-> font, width |-> width, alignItems |-> align,
   perspective |-> persp]

PlainStyle == ComputedStyle(CssText, <<>>, "border-box", "\"kern\"", 0, "normal", "none")

\* A data URL is a record; toDataURL of a canvas without pixels is 'data:,'.
EmptyCanvas == [mime |-> "", body |-> ""]
NoURL == [mime |-> "none", body |-> ""]
Errors == {"NetworkError", "DecodeError"}
NoError == ""

\* ------------------------------------------------------------ node records
\* Every node has kind, parentNode and childNodes; an element has a style
\* attribute; the other fields exist on the kinds that have them, as in the
\* DOM: pixels (canvas), poster (video), value (textarea, input), valueAttr
\* (input), src (img), data (text), shadowRoot (a host: the children of its
\* shadow root).
Element(kind) == [kind |-> kind, parentNode |-> Null, childNodes |-> <<>>, style |-> ""]

Text(data) == [kind |-> "#text", parentNode |-> Null, childNodes |-> <<>>, data |-> data]

Canvas(pixels) ==
  [kind |-> "CANVAS", parentNode |-> Null, childNodes |-> <<>>, style |-> "",
   pixels |-> pixels]

Video(poster) ==
  [kind |-> "VIDEO", parentNode |-> Null, childNodes |-> <<>>, style |-> "",
   poster |-> poster]

TextArea(value) ==
  [kind |-> "TEXTAREA", parentNode |-> Null, childNodes |-> <<>>, style |-> "",
   value |-> value]

Input(value) ==
  [kind |-> "INPUT", parentNode |-> Null, childNodes |-> <<>>, style |-> "",
   value |-> value, valueAttr |-> Markup]

Host ==
  [kind |-> "DIV", parentNode |-> Null, childNodes |-> <<>>, style |-> "",
   shadowRoot |-> <<>>]

\* util.createImage resolves with a new image element showing the data URL.
Image(url) ==
  [kind |-> "IMG", parentNode |-> Null, childNodes |-> <<>>, style |-> "", src |-> url]

\* instanceof Element
IsElement(d, x) == d[x].kind # "#text"

\* node.shadowRoot is not null
HasShadowRoot(d, x) == "shadowRoot" \in DOMAIN d[x]

\* ----------------------------------------------------------- DOM operators
RECURSIVE SeqToSet(_)
SeqToSet(s) == IF s = <<>> THEN {} ELSE {Head(s)} \cup SeqToSet(Tail(s))

Without(s, x) == SelectSeq(s, LAMBDA y : y # x)

\* Removing a node from its parent (from the parent's children, or from the
\* children of the parent's shadow root).
Detach(d, c) ==
  LET p == d[c].parentNode IN
  IF p = Null THEN d
  ELSE LET d1 == [d EXCEPT ![p].childNodes = Without(@, c), ![c].parentNode = Null]
       IN IF HasShadowRoot(d, p)
          THEN [d1 EXCEPT ![p].shadowRoot = Without(@, c)] ELSE d1

\* Node.appendChild: the child leaves its old parent first.
appendChild(d, p, c) ==
  [Detach(d, c) EXCEPT ![p].childNodes = Append(@, c), ![c].parentNode = p]

\* The character references the RCDATA tokenizer decodes.
RECURSIVE ParseRCDATA(_)
ParseRCDATA(s) ==
  IF s = <<>> THEN <<>>
  ELSE IF Len(s) >= Len(Lt) /\ SubSeq(s, 1, Len(Lt)) = Lt
       THEN <<"<">> \o ParseRCDATA(SubSeq(s, Len(Lt) + 1, Len(s)))
  ELSE IF Len(s) >= Len(Amp) /\ SubSeq(s, 1, Len(Amp)) = Amp
       THEN <<"&">> \o ParseRCDATA(SubSeq(s, Len(Amp) + 1, Len(s)))
  ELSE <<Head(s)>> \o ParseRCDATA(Tail(s))

RECURSIVE Orphan(_, _)
Orphan(d, cs) ==
  IF cs = <<>> THEN d
  ELSE Orphan([d EXCEPT ![Head(cs)].parentNode = Null], Tail(cs))

\* The innerHTML setter of a textarea: the markup goes through the HTML
\* fragment parser in the RCDATA state (tags stay text, character references
\* are decoded), and the text it yields replaces all children.
setInnerHTML(d, x, html) ==
  LET d1 == [Orphan(d, d[x].childNodes) EXCEPT ![x].childNodes = <<>>]
      text == ParseRCDATA(html)
  IN IF text = <<>> THEN d1
     ELSE [Append(d1, [Text(text) EXCEPT !.parentNode = x])
             EXCEPT ![x].childNodes = <<Len(d1) + 1>>]

\* Node.textContent
RECURSIVE textContent(_, _)
RECURSIVE ConcatText(_, _)
textContent(d, x) ==
  IF d[x].kind = "#text" THEN d[x].data ELSE ConcatText(d, d[x].childNodes)
ConcatText(d, cs) ==
  IF cs = <<>> THEN <<>> ELSE textContent(d, Head(cs)) \o ConcatText(d, Tail(cs))

\* Node.cloneNode(false): a new node of the same kind with the same
\* attributes, without parent, children or shadow root.
ShallowClone(d, x) ==
  IF HasShadowRoot(d, x) THEN [Element(d[x].kind) EXCEPT !.style = d[x].style]
  ELSE [d[x] EXCEPT !.parentNode = Null, !.childNodes = <<>>]

\* HTMLCanvasElement.toDataURL
toDataURL(d, x) ==
  IF d[x].pixels = "" THEN EmptyCanvas ELSE [mime |-> "image/png", body |-> d[x].pixels]

\* ------------------------------------------------------- shadow DOM lookup
InShadowTree(d, x) ==
  /\ d[x].parentNode # Null
  /\ HasShadowRoot(d, d[x].parentNode)
  /\ x \in SeqToSet(d[d[x].parentNode].shadowRoot)

\* The host whose shadow tree contains x (Null when x is in no shadow tree).
RECURSIVE ShadowHost(_, _)
ShadowHost(d, x) ==
  IF d[x].parentNode = Null THEN Null
  ELSE IF InShadowTree(d, x) THEN d[x].parentNode
  ELSE ShadowHost(d, d[x].parentNode)

Min(S) == CHOOSE m \in S : \A k \in S : m <= k

\* HTMLSlotElement.assignedNodes(): the light children of the host go to one
\* slot of its shadow tree; a slot outside a shadow tree has none assigned.
assignedNodes(d, s) ==
  LET h == ShadowHost(d, s) IN
  IF h = Null THEN <<>>
  ELSE IF s = Min({ t \in 1..Len(d) : d[t].kind = "SLOT" /\ ShadowHost(d, t) = h })
       THEN d[h].childNodes
  ELSE <<>>

\* ------------------------------------------------------------------- state
VARIABLES
  dom,         \* the node store: source nodes 1..MaxNodes, then constructed nodes
  options,     \* Options: filter is <<>> (absent) or <<S>>, S the nodes it rejects
  pseudo,      \* the source nodes whose computed style has pseudo-element content
  computed,    \* getComputedStyle: the style of the nodes listed, PlainStyle for the rest
  pc,          \* per source node: the link of its cloneNode chain that runs next
  clonedNode,  \* per source node: the clonedNode its chain carries (Null: none)
  dataURL,     \* per source node: the data URL handed to createImage
  rejection    \* per source node: the value its chain rejected with

vars == <<dom, options, pseudo, computed, pc, clonedNode, dataURL, rejection>>

\* ----------------------------------------------------------- source trees
\* Source nodes are numbered in document (pre-)order: the parent of i is i-1
\* or one of its ancestors.
RECURSIVE AncOrSelf(_, _)
AncOrSelf(parent, k) ==
  IF k = Root THEN {Root} ELSE {k} \cup AncOrSelf(parent, parent[k])

ParentFns ==
  { parent \in [Nodes \ {Root} -> Nodes] :
      \A i \in Nodes \ {Root} : parent[i] \in AncOrSelf(parent, i - 1) }

\* What a source node can be besides a plain DIV.
Flavour(name) ==
  CASE name = "text" -> Text(Markup)
    [] name = "canvas" -> Canvas("")
    [] name = "drawn" -> Canvas("px")
    [] name = "video" -> Video("")
    [] name = "poster.png" -> Video("poster.png")
    [] name = "poster" -> Video("poster")
    [] name = "slot" -> Element("SLOT")
    [] name = "host" -> Host
    [] name = "input" -> Input(<<"4", "2">>)
    [] name = "textarea" -> TextArea(<<"h", "i">>)
    [] name = "escaped" -> TextArea(<<"a">> \o Lt)
    [] OTHER -> Element("DIV")

Flavours == {"text", "canvas", "drawn", "video", "poster.png", "poster", "slot",
             "host", "input", "textarea", "escaped"}

\* A source document differs from a tree of plain DIV elements in up to two
\* features: a node of another flavour, a node the filter rejects, a node
\* with pseudo-element content.
Features == Nodes \X (Flavours \cup {"reject", "pseudo"})

FeatureSets == { {a, b} : a, b \in Features }

With(M, what) == { n \in Nodes : <<n, what>> \in M }

FlavourOf(M, n) ==
  IF \E fl \in Flavours : <<n, fl>> \in M
  THEN CHOOSE fl \in Flavours : <<n, fl>> \in M ELSE "div"

ChildrenOf(parent, sh, p, shadow) ==
  SelectSeq([i \in 1..MaxNodes |-> i],
            LAMBDA c : c # Root /\ parent[c] = p /\ ((c \in sh) = shadow))

SourceNode(parent, M, sh, n) ==
  LET base == [Flavour(FlavourOf(M, n)) EXCEPT
                 !.parentNode = IF n = Root THEN Null ELSE parent[n],
                 !.childNodes = ChildrenOf(parent, sh, n, FALSE)]
  IN IF FlavourOf(M, n) = "host"
     THEN [base EXCEPT !.shadowRoot = ChildrenOf(parent, sh, n, TRUE)] ELSE base

\* A node has one flavour; a text node has no children and no
\* pseudo-elements.
WellFormed(parent, M) ==
  /\ \A n \in Nodes : Cardinality({ fl \in Flavours : <<n, fl>> \in M }) <= 1
  /\ \A c \in Nodes \ {Root} : FlavourOf(M, parent[c]) # "text"
  /\ \A n \in With(M, "pseudo") : FlavourOf(M, n) # "text"

\* Only the children of a host can be in a shadow tree.
ShadowSets(parent, M) ==
  SUBSET { c \in Nodes \ {Root} : FlavourOf(M, parent[c]) = "host" }

Init ==
  \E parent \in ParentFns, M \in FeatureSets :
    /\ WellFormed(parent, M)
    /\ \E sh \in ShadowSets(parent, M) :
       /\ dom = [n \in 1..MaxNodes |-> SourceNode(parent, M, sh, n)]
       /\ options = [filter |-> IF With(M, "reject") = {} THEN <<>>
                                ELSE << With(M, "reject") >>]
       /\ pseudo = With(M, "pseudo")
       /\ computed = <<>>
       /\ pc = [n \in Nodes |-> "idle"]
       /\ clonedNode = [n \in Nodes |-> Null]
       /\ dataURL = [n \in Nodes |-> NoURL]
       /\ rejection = [n \in Nodes |-> NoError]

\* ------------------------------------------------------------ collaborators
\* util.getMimeType: the type the extension of the URL stands for, '' if none.
getMimeType(url) == IF url = "poster.png" THEN "image/png" ELSE ""

\* util.makeDataUrl
makeDataUrl(blob, mimeType) == [mime |-> mimeType, body |-> blob]

\* What getBlobFromURL resolves with for a URL.
Fetched(url) == [blob |-> url, contentType |-> "image/jpeg"]

\* clonePseudoElements: the clone of a node with pseudo-element content gets
\* a synthetic STYLE child; any other clone is left alone.
clonePseudoElements(d, ps, nativeNode, cloned) ==
  IF nativeNode \notin ps THEN d
  ELSE appendChild(Append(d, Element("STYLE")), cloned, Len(d) + 1)

\* ------------------------------------------------------------- cloneNode.ts
\* Variant: any video is taken for one with a poster.
VariantAnyVideo(d, node) ==
  IF d[node].kind = "CANVAS" THEN "cloneCanvasElement"
  ELSE IF d[node].kind = "VIDEO" THEN "cloneVideoElement"
  ELSE "cloneNode"

\* cloneSingleNode picks one of three variants.
Variant(d, node) ==
  IF d[node].kind = "CANVAS" THEN "cloneCanvasElement"
  ELSE IF d[node].kind = "VIDEO" /\ d[node].poster # "" THEN "cloneVideoElement"
  ELSE "cloneNode"

\* Variant: the export is decoded whatever it is.
DecodesAlways(url) == TRUE

\* cloneCanvasElement decodes the export unless it is the empty sentinel.
DecodesCanvas(url) == url # EmptyCanvas

\* The data URL cloneVideoElement builds from what getBlobFromURL delivers.
PosterDataUrl(poster, data) ==
  makeDataUrl(data.blob,
              IF getMimeType(poster) # "" THEN getMimeType(poster) ELSE data.contentType)

isSlotElement(d, node) == d[node].kind = "SLOT"

\* Variant: a slot nothing is assigned to falls back to its own children.
ChildrenOrFallback(d, nativeNode) ==
  IF isSlotElement(d, nativeNode) /\ assignedNodes(d, nativeNode) # <<>>
  THEN assignedNodes(d, nativeNode)
  ELSE IF HasShadowRoot(d, nativeNode) THEN d[nativeNode].shadowRoot
  ELSE d[nativeNode].childNodes

\* The children cloneChildren reads.
Children(d, nativeNode) ==
  IF isSlotElement(d, nativeNode) THEN assignedNodes(d, nativeNode)
  ELSE IF HasShadowRoot(d, nativeNode) THEN d[nativeNode].shadowRoot
  ELSE d[nativeNode].childNodes

\* Variant: only an empty child list is skipped.
SkipsOnlyEmpty(d, nativeNode) == Children(d, nativeNode) = <<>>

\* Variant: a video keeps its children unless its poster replaced it.
SkipsPosterVideo(d, nativeNode) ==
  \/ Children(d, nativeNode) = <<>>
  \/ d[nativeNode].kind = "VIDEO" /\ d[nativeNode].poster # ""

\* cloneChildren returns the clone as it is for these.
SkipsChildren(d, nativeNode) ==
  Children(d, nativeNode) = <<>> \/ d[nativeNode].kind = "VIDEO"

\* Variants of the guard: one that never prunes, one that forgets isRoot.
PrunedNever(opts, node, isRoot) == FALSE

PrunedRootToo(opts, node, isRoot) == opts.filter # <<>> /\ node \in opts.filter[1]

\* The guard of cloneNode: the filter is consulted for non-root nodes only.
Pruned(opts, node, isRoot) ==
  ~isRoot /\ opts.filter # <<>> /\ node \in opts.filter[1]

\* The reduce of cloneChildren: the link for child i runs once the links of
\* all children before it have settled.
\* Variant: the reduce waits for a clone of every child, pruned ones too.
ReturnedWithClone(c) == pc[c] = "returned" /\ clonedNode[c] # Null

Returned(c) == pc[c] = "returned"

\* Variants of the reduce: all links start at once (a parallel fan-out); a
\* link starts as soon as the call before it has been made.
CanStartAll(children, i) == TRUE

CanStartEarly(children, i) == \A j \in 1..(i - 1) : pc[children[j]] # "idle"

CanStart(children, i) == \A j \in 1..(i - 1) : Returned(children[j])

\* Variant: the failure of a child is reported as a decode failure.
PropagatedAsDecode(childRejection) == "DecodeError"

\* What cloneChildren rejects with when the chain of a child has rejected.
Propagated(childRejection) == childRejection

\* Variant: the child itself is appended instead of its clone.
AppendChildItself(d, cloned, child, clonedChild) ==
  IF clonedChild # Null THEN appendChild(d, cloned, child) ELSE d

\* What the append link does with the value a child's chain resolved with.
AppendResult(d, cloned, child, clonedChild) ==
  IF clonedChild # Null THEN appendChild(d, cloned, clonedChild) ELSE d

\* window.getComputedStyle(nativeNode)
getComputedStyle(cs, nativeNode) ==
  IF nativeNode \in DOMAIN cs THEN cs[nativeNode] ELSE PlainStyle

\* target.setProperty(name, value, priority), as the style attribute shows it.
setProperty(text, p) ==
  (IF text = "" THEN "" ELSE text \o " ")
    \o p.name \o ": " \o p.value
    \o (IF p.priority = "" THEN "" ELSE " !" \o p.priority) \o ";"

RECURSIVE setProperties(_, _)
setProperties(text, props) ==
  IF props = <<>> THEN text
  ELSE setProperties(setProperty(text, Head(props)), Tail(props))

\* clonedNode.getAttribute('style') inside a template literal: the text of
\* the attribute, 'null' when the clone has no style attribute.
getAttribute(text) == IF text = "" THEN "null" ELSE text

\* Variant: the attribute is set without what it held.
PatchOverwrite(text, name, value) == ";" \o name \o ":" \o value \o ";"

\* setAttribute('style', `${getAttribute('style')};name:value;`)
Patch(text, name, value) == getAttribute(text) \o ";" \o name \o ":" \o value \o ";"

\* width.includes('.'): a computed width, here in hundredths of a pixel, is
\* written with a decimal point unless it is a whole number of pixels.
includesDot(width) == width % 100 # 0

RECURSIVE Log2(_)
Log2(n) == IF n <= 1 THEN 0 ELSE 1 + Log2(n \div 2)

\* Bit i after the binary point of nine tenths: 0.1 1100 1100 1100 ...
BitOfNineTenths(i) == IF i = 1 \/ (i - 2) % 4 \in {0, 1} THEN 1 ELSE 0

\* floatWidth % 1 > 0.9 on doubles. parseFloat rounds the width to 53
\* significant bits, so for n.9 the fraction % 1 leaves is nine tenths
\* rounded to the 52 - Log2(n) bits that the integer part n leaves; it lies
\* above the double 0.9 exactly when that rounding went up. Any other
\* fraction in hundredths is further from 0.9 than the rounding errors.
FractionExceeds(width) ==
  IF width % 100 # 90 THEN width % 100 > 90
  ELSE width >= 100 /\ BitOfNineTenths(53 - Log2(width \div 100)) = 1

\* Variant: the ceiling is taken without the bias.
CeilOnly(width) == (width + 99) \div 100

\* Lines 123-127: parseFloat, the bias of one pixel, Math.ceil.
newWidth(width) ==
  LET floatWidth == IF FractionExceeds(width) THEN width + 100 ELSE width
  IN (floatWidth + 99) \div 100

cloneCSSStyle(d, cs, nativeNode, cloned) ==
  LET source == getComputedStyle(cs, nativeNode)
      copied == IF source.cssText # "" THEN source.cssText
                ELSE setProperties(d[cloned].style, source.props)
      clip == IF source.webkitBackgroundClip # "border-box"
              THEN Patch(copied, "-webkit-background-clip", source.webkitBackgroundClip)
              ELSE copied
      font == IF source.fontFeatureSettings # "\"kern\""
              THEN Patch(clip, "font-feature-settings", source.fontFeatureSettings)
              ELSE clip
      wide == IF d[nativeNode].kind = "P" /\ includesDot(source.width)
              THEN Patch(font, "width", ToString(newWidth(source.width)) \o "px")
              ELSE font
      align == IF source.alignItems # "normal"
               THEN Patch(wide, "align-items", source.alignItems) ELSE wide
      persp == IF source.perspective # "none"
               THEN Patch(align, "perspective", source.perspective) ELSE align
  IN IF "style" \notin DOMAIN d[cloned] THEN d
     ELSE [d EXCEPT ![cloned].style = persp]

cloneInputValue(d, nativeNode, cloned) ==
  LET d1 == IF d[nativeNode].kind = "TEXTAREA"
            THEN setInnerHTML(d, cloned, d[nativeNode].value) ELSE d
  IN IF d[nativeNode].kind = "INPUT"
     THEN [d1 EXCEPT ![cloned].valueAttr = d[nativeNode].value] ELSE d1

\* ----------------------------------------------------------------- actions
\* cloneNode(node, options, isRoot), up to its first suspension.
cloneNode(node, isRoot) ==
  /\ pc[node] = "idle"
  /\ pc' = [pc EXCEPT ![node] = IF Pruned(options, node, isRoot)
                                THEN "resolved" ELSE "cloneSingleNode"]
  /\ UNCHANGED <<dom, options, pseudo, computed, clonedNode, dataURL, rejection>>

\* The caller's top-level call.
CallRoot == cloneNode(Root, TRUE)

cloneSingleNode(node) ==
  /\ pc[node] = "cloneSingleNode"
  /\ LET v == Variant(dom, node) IN
     \/ /\ v = "cloneCanvasElement" /\ DecodesCanvas(toDataURL(dom, node))
        /\ dataURL' = [dataURL EXCEPT ![node] = toDataURL(dom, node)]
        /\ pc' = [pc EXCEPT ![node] = "createImage"]
        /\ UNCHANGED <<dom, clonedNode>>
     \/ /\ v = "cloneVideoElement"
        /\ pc' = [pc EXCEPT ![node] = "getBlobFromURL"]
        /\ UNCHANGED <<dom, clonedNode, dataURL>>
     \/ /\ \/ v = "cloneNode"
           \/ v = "cloneCanvasElement" /\ ~DecodesCanvas(toDataURL(dom, node))
        /\ dom' = Append(dom, ShallowClone(dom, node))
        /\ clonedNode' = [clonedNode EXCEPT ![node] = Len(dom) + 1]
        /\ pc' = [pc EXCEPT ![node] = "cloneChildren"]
        /\ UNCHANGED dataURL
  /\ UNCHANGED <<options, pseudo, computed, rejection>>

\* getBlobFromURL resolves: cloneVideoElement goes on to makeDataUrl and
\* createImage.
getBlobFromURLResolves(node) ==
  /\ pc[node] = "getBlobFromURL"
  /\ dataURL' = [dataURL EXCEPT
                   ![node] = PosterDataUrl(dom[node].poster, Fetched(dom[node].poster))]
  /\ pc' = [pc EXCEPT ![node] = "createImage"]
  /\ UNCHANGED <<dom, options, pseudo, computed, clonedNode, rejection>>

\* A collaborator rejects: the chain of the node rejects with its value.
Rejects(node, at, e) ==
  /\ pc[node] = at
  /\ pc' = [pc EXCEPT ![node] = "rejected"]
  /\ rejection' = [rejection EXCEPT ![node] = e]
  /\ UNCHANGED <<dom, options, pseudo, computed, clonedNode, dataURL>>

getBlobFromURLRejects(node) == \E e \in Errors : Rejects(node, "getBlobFromURL", e)

createImageResolves(node) ==
  /\ pc[node] = "createImage"
  /\ dom' = Append(dom, Image(dataURL[node]))
  /\ clonedNode' = [clonedNode EXCEPT ![node] = Len(dom) + 1]
  /\ pc' = [pc EXCEPT ![node] = "cloneChildren"]
  /\ UNCHANGED <<options, pseudo, computed, dataURL, rejection>>

createImageRejects(node) == \E e \in Errors : Rejects(node, "createImage", e)

\* Variant: the reduce chain is not returned, so decorate does not wait for it.
cloneChildrenUnawaited(node) ==
  /\ pc[node] = "cloneChildren"
  /\ pc' = [pc EXCEPT ![node] = "decorate"]
  /\ UNCHANGED <<dom, options, pseudo, computed, clonedNode, dataURL, rejection>>

\* cloneChildren(nativeNode, clonedNode, options) up to the reduce.
cloneChildren(node) ==
  /\ pc[node] = "cloneChildren"
  /\ pc' = [pc EXCEPT ![node] = IF SkipsChildren(dom, node) THEN "decorate" ELSE "reduce"]
  /\ UNCHANGED <<dom, options, pseudo, computed, clonedNode, dataURL, rejection>>

\* .then(() => cloneNode(child, options)) for a child.
reduceCall(node) ==
  /\ pc[node] = "reduce"
  /\ \E i \in 1..Len(Children(dom, node)) :
       /\ CanStart(Children(dom, node), i)
       /\ cloneNode(Children(dom, node)[i], FALSE)

\* .then((clonedChild) => { if (clonedChild) clonedNode.appendChild(clonedChild) })
reduceAppend(node) ==
  /\ pc[node] = "reduce"
  /\ \E i \in 1..Len(Children(dom, node)) :
       LET child == Children(dom, node)[i] IN
       /\ pc[child] = "resolved"
       /\ dom' = AppendResult(dom, clonedNode[node], child, clonedNode[child])
       /\ pc' = [pc EXCEPT ![child] = "returned"]
  /\ UNCHANGED <<options, pseudo, computed, clonedNode, dataURL, rejection>>

\* Variant: a rejected child is passed over like a pruned one.
reduceSkipsRejected(node) ==
  /\ pc[node] = "reduce"
  /\ \E i \in 1..Len(Children(dom, node)) :
       LET child == Children(dom, node)[i] IN
       /\ pc[child] = "rejected"
       /\ pc' = [pc EXCEPT ![child] = "returned"]
  /\ UNCHANGED <<dom, options, pseudo, computed, clonedNode, dataURL, rejection>>

\* A rejected child chain: the remaining links of the reduce are skipped and
\* cloneChildren rejects with the child's value.
reduceRejects(node) ==
  /\ pc[node] = "reduce"
  /\ \E i \in 1..Len(Children(dom, node)) :
       LET child == Children(dom, node)[i] IN
       /\ pc[child] = "rejected"
       /\ pc' = [pc EXCEPT ![node] = "rejected", ![child] = "returned"]
       /\ rejection' = [rejection EXCEPT ![node] = Propagated(rejection[child])]
  /\ UNCHANGED <<dom, options, pseudo, computed, clonedNode, dataURL>>

\* .then(() => clonedNode): the reduce has run through.
reduceDone(node) ==
  /\ pc[node] = "reduce"
  /\ \A i \in 1..Len(Children(dom, node)) : Returned(Children(dom, node)[i])
  /\ pc' = [pc EXCEPT ![node] = "decorate"]
  /\ UNCHANGED <<dom, options, pseudo, computed, clonedNode, dataURL, rejection>>

\* decorate(nativeNode, clonedNode): nothing to do unless the clone is an Element.
decorate(node) ==
  /\ pc[node] = "decorate"
  /\ pc' = [pc EXCEPT ![node] = IF IsElement(dom, clonedNode[node])
                                THEN "cloneCSSStyle" ELSE "resolved"]
  /\ UNCHANGED <<dom, options, pseudo, computed, clonedNode, dataURL, rejection>>

\* Variant: the pseudo-element step is left out of the chain.
decorateStyleThenValue(node) ==
  /\ pc[node] = "cloneCSSStyle"
  /\ dom' = cloneCSSStyle(dom, computed, node, clonedNode[node])
  /\ pc' = [pc EXCEPT ![node] = "cloneInputValue"]
  /\ UNCHANGED <<options, pseudo, computed, clonedNode, dataURL, rejection>>

decorateStyle(node) ==
  /\ pc[node] = "cloneCSSStyle"
  /\ dom' = cloneCSSStyle(dom, computed, node, clonedNode[node])
  /\ pc' = [pc EXCEPT ![node] = "clonePseudoElements"]
  /\ UNCHANGED <<options, pseudo, computed, clonedNode, dataURL, rejection>>

decoratePseudo(node) ==
  /\ pc[node] = "clonePseudoElements"
  /\ dom' = clonePseudoElements(dom, pseudo, node, clonedNode[node])
  /\ pc' = [pc EXCEPT ![node] = "cloneInputValue"]
  /\ UNCHANGED <<options, pseudo, computed, clonedNode, dataURL, rejection>>

\* clonePseudoElements has settled: cloneInputValue and the final
\* .then(() => clonedNode) run.
decorateValue(node) ==
  /\ pc[node] = "cloneInputValue"
  /\ dom' = cloneInputValue(dom, node, clonedNode[node])
  /\ pc' = [pc EXCEPT ![node] = "resolved"]
  /\ UNCHANGED <<options, pseudo, computed, clonedNode, dataURL, rejection>>

Next ==
  \/ CallRoot
  \/ \E n \in Nodes : cloneSingleNode(n)
  \/ \E n \in Nodes : getBlobFromURLResolves(n)
  \/ \E n \in Nodes : getBlobFromURLRejects(n)
  \/ \E n \in Nodes : createImageResolves(n)
  \/ \E n \in Nodes : createImageRejects(n)
  \/ \E n \in Nodes : cloneChildren(n)
  \/ \E n \in Nodes : reduceCall(n)
  \/ \E n \in Nodes : reduceAppend(n)
  \/ \E n \in Nodes : reduceRejects(n)
  \/ \E n \in Nodes : reduceDone(n)
  \/ \E n \in Nodes : decorate(n)
  \/ \E n \in Nodes : decorateStyle(n)
  \/ \E n \in Nodes : decoratePseudo(n)
  \/ \E n \in Nodes : decorateValue(n)

Spec == Init /\ [][Next]_vars

\* Every callback that is ready runs, and every collaborator call settles.
FairSpec == Spec /\ WF_vars(Next)

\* ------------------------------------------------------- reading the state
FilterRejects(n) == options.filter # <<>> /\ n \in options.filter[1]

ShadowChildren(n) == IF HasShadowRoot(dom, n) THEN dom[n].shadowRoot ELSE <<>>

\* Every node below n: through literal children, shadow trees and slots.
RECURSIVE Below(_)
RECURSIVE BelowAll(_)
Below(n) ==
  LET cs == SeqToSet(dom[n].childNodes) \cup SeqToSet(ShadowChildren(n))
              \cup SeqToSet(Children(dom, n))
  IN cs \cup BelowAll(cs)
BelowAll(S) ==
  IF S = {} THEN {} ELSE LET c == CHOOSE c \in S : TRUE IN Below(c) \cup BelowAll(S \ {c})

\* The nodes whose cloneChildren reads n as a child.
Parents(n) == { p \in Nodes : n \in SeqToSet(Children(dom, p)) }

\* The nodes of the tree under x, in document order.
RECURSIVE Flatten(_, _)
RECURSIVE FlattenAll(_, _)
Flatten(d, x) == <<x>> \o FlattenAll(d, d[x].childNodes)
FlattenAll(d, cs) ==
  IF cs = <<>> THEN <<>> ELSE Flatten(d, Head(cs)) \o FlattenAll(d, Tail(cs))

\* The children of p that the filter accepts, and their clones.
Kept(p) == SelectSeq(Children(dom, p), LAMBDA c : ~FilterRejects(c))

Clones(cs) == [i \in 1..Len(cs) |-> clonedNode[cs[i]]]

\* The children of the clone of p that are clones of source nodes.
ClonedChildren(p) ==
  SelectSeq(dom[clonedNode[p]].childNodes,
            LAMBDA x : \E c \in Nodes : clonedNode[c] = x)

Started(n) == pc[n] # "idle"
Resolved(n) == pc[n] \in {"resolved", "returned"} /\ rejection[n] = NoError
PastChildren(n) ==
  \/ pc[n] \in {"decorate", "cloneCSSStyle", "clonePseudoElements", "cloneInputValue"}
  \/ Resolved(n) /\ clonedNode[n] # Null

\* The value the top-level call resolved with is a tree.
Done == pc[Root] = "resolved"
Result == Flatten(dom, clonedNode[Root])

\* ------------------------------------------------------------------ claims
\* C1 -- Filter exclusion: a non-root node the traversal reaches and the
\* filter rejects resolves to null at once and gets no clone; nothing below
\* it is ever visited (no filter call, no clone, no collaborator call) nor
\* part of the result; its siblings are cloned and appended as if it were
\* not there.
FilterExclusion ==
  \A n \in Nodes \ {Root} :
    (FilterRejects(n) /\ Started(n)) =>
      /\ Resolved(n) /\ clonedNode[n] = Null /\ dataURL[n] = NoURL
      /\ \A x \in Below(n) :
           pc[x] = "idle" /\ clonedNode[x] = Null /\ dataURL[x] = NoURL
      /\ \A p \in Parents(n) :
           pc[p] = "decorate" =>
             /\ \A c \in SeqToSet(Children(dom, p)) \ {n} :
                  ~FilterRejects(c) => Resolved(c) /\ clonedNode[c] # Null
             /\ dom[clonedNode[p]].childNodes
                  = Clones(SelectSeq(Without(Children(dom, p), n),
                                     LAMBDA c : ~FilterRejects(c)))
      /\ Done => SeqToSet(Result) \cap ({n} \cup Below(n)) = {}

\* A pruned node with something below it and a sibling, in a finished call.
FilterExclusionWitness ==
  /\ Done
  /\ \E n \in Nodes \ {Root} :
       /\ FilterRejects(n) /\ pc[n] = "returned" /\ Below(n) # {}
       /\ \E p \in Parents(n), c \in Nodes \ {n} :
            /\ c \in SeqToSet(Children(dom, p))
            /\ dom[clonedNode[p]].childNodes = <<clonedNode[c]>>

\* C2 -- Order preservation: when cloneChildren of a parent has run through,
\* the children of its clone are the clones of the children the filter
\* accepts, in source order, whenever each child's clone settled; they stay
\* so in the finished clone (a textarea's content is rewritten afterwards).
\* Until then the children appended so far are the clones of an initial
\* segment of them.
OrderPreservation ==
  \A p \in Nodes :
    (pc[p] = "reduce" \/ PastChildren(p)) =>
      LET kept == Clones(Kept(p))
          appended == dom[clonedNode[p]].childNodes
      IN
      /\ pc[p] = "reduce" =>
           /\ Len(appended) <= Len(kept)
           /\ appended = SubSeq(kept, 1, Len(appended))
      /\ (PastChildren(p) /\ dom[p].kind # "VIDEO") =>
           /\ pc[p] = "decorate" => appended = kept
           /\ dom[p].kind # "TEXTAREA" => ClonedChildren(p) = kept
      /\ (PastChildren(p) /\ dom[p].kind = "VIDEO") => ClonedChildren(p) = <<>>

\* A finished parent with two clones appended whose first child had to wait
\* for createImage while the second did not.
OrderPreservationWitness ==
  \E p \in Nodes :
    /\ Resolved(p) /\ clonedNode[p] # Null /\ Len(Kept(p)) >= 2
    /\ ClonedChildren(p) = Clones(Kept(p))
    /\ dom[clonedNode[Kept(p)[1]]].kind = "IMG"
    /\ dom[clonedNode[Kept(p)[2]]].kind # "IMG"

\* C3 -- The root is always cloned: the top-level call never resolves to
\* null, also when the filter rejects the root; every other reached node the
\* filter rejects is pruned.
RootAlwaysCloned ==
  /\ Started(Root) => pc[Root] \in {"rejected"} \/ ~(Resolved(Root) /\ clonedNode[Root] = Null)
  /\ Done => clonedNode[Root] # Null /\ clonedNode[Root] \notin Nodes
  /\ \A n \in Nodes \ {Root} :
       (Started(n) /\ FilterRejects(n)) => Resolved(n) /\ clonedNode[n] = Null

\* The filter rejects the root and one more node; the call has resolved.
RootAlwaysClonedWitness ==
  /\ Done /\ FilterRejects(Root) /\ clonedNode[Root] # Null
  /\ \E n \in Nodes \ {Root} : FilterRejects(n) /\ pc[n] = "returned"

\* The source nodes the traversal gets to clone: the root, and the children
\* read from a cloned node that is not a video, unless the filter rejects them.
RECURSIVE Reached(_)
Reached(n) ==
  \/ n = Root
  \/ /\ ~FilterRejects(n)
     /\ \E p \in Parents(n) : dom[p].kind # "VIDEO" /\ Reached(p)

RECURSIVE UnderTextArea(_)
UnderTextArea(n) ==
  \E p \in Parents(n) : dom[p].kind = "TEXTAREA" \/ UnderTextArea(p)

\* The filter pruned n: it rejects n or a node above n (other than the root).
PrunedByFilter(n) ==
  \E a \in Nodes \ {Root} : FilterRejects(a) /\ (a = n \/ n \in Below(a))

\* How often the clone made for n occurs in the returned tree.
Count(n) ==
  IF clonedNode[n] = Null THEN 0
  ELSE LET r == Result IN Cardinality({ i \in 1..Len(r) : r[i] = clonedNode[n] })

\* C4 (as claimed) -- every source node the filter does not prune has exactly
\* one clone in the returned tree.
OneClonePerUnprunedNode ==
  Done => \A n \in Nodes : ~PrunedByFilter(n) => Count(n) = 1

\* C4 (amended) -- no source node has two clones in the returned tree; it has
\* one exactly when the traversal reaches it (the root; a child read from a
\* reached node that is not a video, accepted by the filter) and it is not
\* below a textarea, whose content the live value replaces.
OneClonePerReachedNode ==
  Done => \A n \in Nodes :
            Count(n) = IF Reached(n) /\ ~UnderTextArea(n) THEN 1 ELSE 0

\* A finished call on a shadow host whose slot projects a light child, every
\* node cloned once.
OneClonePerReachedNodeWitness ==
  /\ Done
  /\ \A n \in Nodes : Count(n) = 1
  /\ \E h \in Nodes, sl \in Nodes :
       /\ HasShadowRoot(dom, h) /\ dom[h].childNodes # <<>>
       /\ dom[sl].kind = "SLOT" /\ Children(dom, sl) = dom[h].childNodes

\* C5 -- Strictly sequential siblings: a child's clone is started only when
\* every child before it has settled and been appended (or omitted), so at
\* most one child of a parent is in flight; a node is started only by a
\* started node that reads it as a child, so nothing in a subtree starts
\* before the call for its top node.
SequentialSiblings ==
  /\ \A p \in Nodes :
       LET cs == Children(dom, p) IN
       /\ \A i, j \in 1..Len(cs) : (i < j /\ Started(cs[j])) => Returned(cs[i])
       /\ Cardinality({ i \in 1..Len(cs) : Started(cs[i]) /\ ~Returned(cs[i]) }) <= 1
  /\ \A x \in Nodes \ {Root} :
       Started(x) => \E p \in Nodes : Started(p) /\ x \in SeqToSet(Children(dom, p))

\* The second child waits for createImage after the first child, which has
\* a subtree of its own, has been appended.
SequentialSiblingsWitness ==
  \E p \in Nodes :
    /\ pc[p] = "reduce" /\ Len(Children(dom, p)) >= 2
    /\ Returned(Children(dom, p)[1]) /\ Below(Children(dom, p)[1]) # {}
    /\ dom[clonedNode[p]].childNodes = <<clonedNode[Children(dom, p)[1]]>>
    /\ pc[Children(dom, p)[2]] = "createImage"

\* C6 -- Failure propagation: once createImage or getBlobFromURL has rejected
\* for a node, that node's collaborators are not called again, the top-level
\* call never resolves, and when nothing is left to run it has rejected with
\* that very value; it rejects for no other reason.
Failed == { n \in Nodes : rejection[n] # NoError }

FailurePropagation ==
  /\ \A n \in Failed : pc[n] \in {"rejected", "returned"}
  /\ \A n, m \in Failed : rejection[n] = rejection[m]
  /\ Failed # {} => ~Done
  /\ (Failed # {} /\ ~ENABLED Next) => pc[Root] = "rejected"
  /\ pc[Root] = "rejected" => Failed # {}
  /\ \A n \in Nodes : pc[n] = "rejected" => n \in Failed

\* A failed fetch two levels below the root has rejected the top-level call.
FailurePropagationWitness ==
  /\ pc[Root] = "rejected" /\ rejection[Root] = "NetworkError"
  /\ \E n \in Nodes \ {Root} :
       /\ dom[n].kind = "VIDEO" /\ rejection[n] = "NetworkError"
       /\ Root \notin Parents(n)

\* C7 -- The source tree is read-only: no step changes a source node (its
\* parent, children, shadow tree, attributes, content), whether the call
\* succeeds, prunes or rejects; what the chains carry and build are new nodes
\* whose parents and children are new nodes.
SourceView == [n \in Nodes |-> dom[n]]

NewNodesOnly ==
  /\ \A n \in Nodes : clonedNode[n] \notin Nodes
  /\ \A x \in (1..Len(dom)) \ Nodes :
       /\ dom[x].parentNode \notin Nodes
       /\ SeqToSet(dom[x].childNodes) \cap Nodes = {}
  /\ Done => SeqToSet(Result) \cap Nodes = {}

SourceReadOnly == [][SourceView' = SourceView]_vars /\ []NewNodesOnly

\* A finished call that appended a clone, rewrote a textarea's content and
\* wrote a style.
SourceReadOnlyWitness ==
  /\ Done /\ dom[clonedNode[Root]].style = CssText
  /\ \E p \in Nodes : clonedNode[p] # Null /\ ClonedChildren(p) # <<>>
  /\ \E n \in Nodes :
       /\ dom[n].kind = "TEXTAREA" /\ Resolved(n)
       /\ dom[clonedNode[n]].childNodes # <<>>

\* C8 -- Type dispatch: a drawn canvas becomes the image createImage makes of
\* its export; a blank canvas becomes a childless canvas clone, createImage
\* not called; a video with a poster becomes the image made by getBlobFromURL,
\* makeDataUrl and createImage, in this order; every other node, a video
\* without poster too, becomes a childless clone of its kind with no
\* collaborator called.
Collaborating(n) == pc[n] \in {"getBlobFromURL", "createImage"}

Fresh(x) == dom[x].childNodes = <<>> /\ dom[x].parentNode = Null

TypeDispatch ==
  \A n \in Nodes :
    LET k == dom[n].kind
        c == clonedNode[n]
        drawn == k = "CANVAS" /\ dom[n].pixels # ""
        poster == k = "VIDEO" /\ dom[n].poster # ""
    IN
    /\ pc[n] = "cloneChildren" => Fresh(c)
    /\ drawn =>
         LET export == [mime |-> "image/png", body |-> dom[n].pixels] IN
         /\ pc[n] # "getBlobFromURL"
         /\ pc[n] = "createImage" => dataURL[n] = export /\ c = Null
         /\ c # Null => dom[c].kind = "IMG" /\ dom[c].src = export
    /\ poster =>
         LET made == [mime |-> IF dom[n].poster = "poster.png" THEN "image/png"
                               ELSE "image/jpeg",
                      body |-> dom[n].poster] IN
         /\ pc[n] = "getBlobFromURL" => dataURL[n] = NoURL /\ c = Null
         /\ pc[n] = "createImage" => dataURL[n] = made /\ c = Null
         /\ c # Null => dom[c].kind = "IMG" /\ dom[c].src = made
    /\ (~drawn /\ ~poster) =>
         /\ ~Collaborating(n) /\ dataURL[n] = NoURL
         /\ c # Null => dom[c].kind = k

\* Images have been made of a poster without a file extension and of a
\* drawn canvas, and a video without poster has a plain clone.
TypeDispatchWitness ==
  /\ \E n \in Nodes :
       /\ dom[n].kind = "VIDEO" /\ dom[n].poster = "poster"
       /\ Resolved(n) /\ clonedNode[n] # Null
       /\ dom[clonedNode[n]].kind = "IMG"
  /\ \E n \in Nodes :
       /\ dom[n].kind = "CANVAS" /\ Resolved(n) /\ clonedNode[n] # Null

\* C9 (as claimed) -- the clone of a blank canvas in the result is a canvas
\* without image content and without children, whatever children the source
\* canvas has.
BlankCanvas(n) == dom[n].kind = "CANVAS" /\ dom[n].pixels = ""

BlankCanvasChildless ==
  Done => \A n \in Nodes :
            (BlankCanvas(n) /\ Count(n) = 1) =>
              /\ dom[clonedNode[n]].kind = "CANVAS"
              /\ "src" \notin DOMAIN dom[clonedNode[n]]
              /\ dom[clonedNode[n]].childNodes = <<>>

\* C9 (amended) -- the clone of a blank canvas is a canvas without image
\* content, createImage not called for it; it has no children when the
\* source canvas has no children and no pseudo-element content, else its
\* children are the clones of the canvas's children that the filter accepts,
\* in order, followed by the pseudo-element content.
BlankCanvasClone ==
  \A n \in Nodes :
    BlankCanvas(n) =>
      /\ ~Collaborating(n) /\ dataURL[n] = NoURL
      /\ clonedNode[n] # Null =>
           LET c == dom[clonedNode[n]] IN
           /\ c.kind = "CANVAS" /\ "src" \notin DOMAIN c
           /\ PastChildren(n) => ClonedChildren(n) = Clones(Kept(n))
           /\ Resolved(n) =>
                /\ Len(c.childNodes) = Len(Kept(n)) + (IF n \in pseudo THEN 1 ELSE 0)
                /\ (dom[n].childNodes = <<>> /\ n \notin pseudo) => c.childNodes = <<>>

\* A finished call with a blank canvas whose child has been cloned into it.
BlankCanvasCloneWitness ==
  /\ Done
  /\ \E n \in Nodes :
       /\ BlankCanvas(n) /\ Count(n) = 1
       /\ Len(dom[n].childNodes) = 1
       /\ dom[clonedNode[n]].childNodes = Clones(dom[n].childNodes)

\* C10 -- Textarea round-trip: when cloneNode has completed for a textarea,
\* the content of its clone is exactly the live value of the source.
TextareaRoundTrip ==
  \A n \in Nodes :
    (dom[n].kind = "TEXTAREA" /\ Resolved(n) /\ clonedNode[n] # Null) =>
      textContent(dom, clonedNode[n]) = dom[n].value

\* ------------------------------------------------- the style snapshot
\* The calls whose nodes are plain elements, one of them a paragraph or a
\* DIV with a computed style of its own: every combination of a host with
\* serialized style text, with declared properties only or with neither, the
\* four values that are patched or not, and a width.
Props ==
  << [name |-> "color", value |-> "red", priority |-> ""],
     [name |-> "top", value |-> "0px", priority |-> "important"] >>

Hosts == { <<"color: red; top: 0px !important;", Props>>, <<"", Props>>, <<"", <<>> >> }

\* 10px, 10.5px, 10.89px, 10.9px, 10.95px, 1.9px
Widths == {1000, 1050, 1089, 1090, 1095, 190}

Styles ==
  { ComputedStyle(h[1], h[2], clip, font, width, align, persp) :
      h \in Hosts, clip \in {"border-box", "text"}, font \in {"\"kern\"", "normal"},
      width \in Widths, align \in {"normal", "center"}, persp \in {"none", "100px"} }

StyleInit ==
  \E n \in Nodes, kind \in {"P", "DIV"}, st \in Styles :
    /\ dom = [i \in 1..MaxNodes |->
                [Element(IF i = n THEN kind ELSE "DIV") EXCEPT
                   !.parentNode = IF i = Root THEN Null ELSE Root,
                   !.childNodes = IF i = Root THEN [j \in 1..(MaxNodes - 1) |-> j + 1]
                                  ELSE <<>>]]
    /\ options = [filter |-> <<>>]
    /\ pseudo = {}
    /\ computed = (n :> st)
    /\ pc = [i \in Nodes |-> "idle"]
    /\ clonedNode = [i \in Nodes |-> Null]
    /\ dataURL = [i \in Nodes |-> NoURL]
    /\ rejection = [i \in Nodes |-> NoError]

StyleNext ==
  \/ CallRoot
  \/ \E n \in Nodes : cloneSingleNode(n)
  \/ \E n \in Nodes : cloneChildren(n)
  \/ \E n \in Nodes : reduceCall(n)
  \/ \E n \in Nodes : reduceAppend(n)
  \/ \E n \in Nodes : reduceDone(n)
  \/ \E n \in Nodes : decorate(n)
  \/ \E n \in Nodes : decorateStyle(n)
  \/ \E n \in Nodes : decoratePseudo(n)
  \/ \E n \in Nodes : decorateValue(n)

StyleSpec == StyleInit /\ [][StyleNext]_vars

\* cloneCSSStyle has run for the node.
StyleWritten(n) ==
  /\ clonedNode[n] # Null
  /\ pc[n] \in {"clonePseudoElements", "cloneInputValue", "resolved", "returned"}

\* The places of a style text where a fragment stands.
Occurs(text, frag) ==
  { i \in 1..(Len(text) - Len(frag) + 1) : SubSeq(text, i, i + Len(frag) - 1) = frag }

\* The inline style of the clone of a paragraph whose computed width is w
\* sets the width to px pixels, and sets it once.
PatchedWidth(n, w, px) ==
  (dom[n].kind = "P" /\ n \in DOMAIN computed /\ computed[n].width = w /\ StyleWritten(n)) =>
    /\ Occurs(dom[clonedNode[n]].style, ";width:" \o px \o "px;") # {}
    /\ Cardinality(Occurs(dom[clonedNode[n]].style, ";width:")) = 1

\* C11 (as claimed) -- the computed widths 10.95px, 10.5px and 10.89px of a
\* paragraph are all patched to 11px.
WidthExamples ==
  \A n \in Nodes :
    PatchedWidth(n, 1095, "11") /\ PatchedWidth(n, 1050, "11") /\ PatchedWidth(n, 1089, "11")

\* C11 (amended) -- the computed width 10.95px of a paragraph is patched to
\* 12px (its fraction exceeds 0.9, so one pixel is added before the ceiling);
\* 10.5px and 10.89px are patched to 11px.
WidthExamplesBiased ==
  \A n \in Nodes :
    PatchedWidth(n, 1095, "12") /\ PatchedWidth(n, 1050, "11") /\ PatchedWidth(n, 1089, "11")

\* A paragraph of width 10.95px has been given its inline style.
WidthExamplesBiasedWitness ==
  \E n \in Nodes :
    /\ dom[n].kind = "P" /\ n \in DOMAIN computed /\ computed[n].width = 1095
    /\ pc[n] = "resolved"
    /\ Occurs(dom[clonedNode[n]].style, ";width:12px;") # {}

\* C12 -- Effective child source: the clone of a slot gets the clones of the
\* nodes assigned to it and nothing else, its own (fallback) children are
\* not visited, also when nothing is assigned; the clone of a shadow host
\* gets the clones of the children of its shadow root and none of its own
\* children; the clone of any other node gets the clones of its own
\* children. (Clones of the children the filter accepts; a video is not
\* traversed.)
Accepted(cs) == SelectSeq(cs, LAMBDA c : ~FilterRejects(c))

EffectiveChildSource ==
  \A p \in Nodes :
    (PastChildren(p) /\ dom[p].kind \notin {"VIDEO", "TEXTAREA"}) =>
      LET got == ClonedChildren(p)
          own == dom[p].childNodes
      IN
      IF dom[p].kind = "SLOT"
      THEN /\ got = Clones(Accepted(assignedNodes(dom, p)))
           /\ \A c \in SeqToSet(own) : pc[c] = "idle" /\ clonedNode[c] = Null
      ELSE IF HasShadowRoot(dom, p)
      THEN /\ got = Clones(Accepted(dom[p].shadowRoot))
           /\ \A c \in SeqToSet(own) : clonedNode[c] \notin SeqToSet(got)
           /\ \A c \in SeqToSet(own) :
                Started(c) => \E sl \in Nodes : dom[sl].kind = "SLOT" /\ ShadowHost(dom, sl) = p
      ELSE got = Clones(Accepted(own))

\* A finished call on a host whose slot has a fallback child and a node
\* assigned: the clone of the slot holds the clone of the assigned node.
EffectiveChildSourceWitness ==
  /\ Done
  /\ \E h \in Nodes, sl \in Nodes :
       /\ HasShadowRoot(dom, h) /\ dom[sl].kind = "SLOT" /\ clonedNode[sl] # Null
       /\ dom[sl].childNodes # <<>> /\ dom[h].childNodes # <<>>
       /\ ClonedChildren(sl) = Clones(dom[h].childNodes)
       /\ ClonedChildren(h) = <<clonedNode[sl]>>

\* C13 -- Child-traversal skip: for a video, with or without poster, and for
\* a node whose effective child list is empty, cloneChildren hands on the
\* clone as cloneSingleNode made it: the reduce is never entered, nothing is
\* appended, and no child is visited (no filter call, no clone).
Skipped(p) == dom[p].kind = "VIDEO" \/ Children(dom, p) = <<>>

TraversalSkip ==
  \A p \in Nodes :
    Skipped(p) =>
      /\ pc[p] # "reduce"
      /\ pc[p] = "decorate" => Fresh(clonedNode[p])
      /\ PastChildren(p) => ClonedChildren(p) = <<>>
      /\ dom[p].kind = "VIDEO" =>
           \A c \in SeqToSet(dom[p].childNodes) :
             pc[c] = "idle" /\ clonedNode[c] = Null /\ dataURL[c] = NoURL

\* A finished call: a video without poster has a child, and its clone none.
TraversalSkipWitness ==
  /\ Done
  /\ \E p \in Nodes :
       /\ dom[p].kind = "VIDEO" /\ dom[p].poster = "" /\ dom[p].childNodes # <<>>
       /\ pc[p] = "returned" /\ clonedNode[p] # Null
       /\ dom[clonedNode[p]].kind = "VIDEO"
       /\ dom[clonedNode[p]].childNodes = <<>>

\* C14 -- Pipeline order: a node has no clone before its filter check and
\* shallow clone are over; its clone is undecorated while its children are
\* traversed; its decoration starts only when every child the traversal
\* keeps has been cloned, decorated and appended -- and so, each child having
\* gone through the same, every descendant: decoration is in post-order.
Decorating(n) == pc[n] \in {"decorate", "cloneCSSStyle", "clonePseudoElements", "cloneInputValue"}

Decorated(n) ==
  /\ pc[n] = "returned" /\ clonedNode[n] # Null /\ rejection[n] = NoError
  /\ IsElement(dom, clonedNode[n]) => dom[clonedNode[n]].style # ""

PipelineOrder ==
  \A n \in Nodes :
    /\ pc[n] \in {"idle", "cloneSingleNode", "getBlobFromURL", "createImage"} =>
         clonedNode[n] = Null
    /\ pc[n] \in {"cloneChildren", "reduce", "decorate", "cloneCSSStyle"} =>
         /\ clonedNode[n] # Null
         /\ IsElement(dom, clonedNode[n]) => dom[clonedNode[n]].style = ""
         /\ \A x \in SeqToSet(dom[clonedNode[n]].childNodes) : dom[x].kind # "STYLE"
    /\ (Decorating(n) /\ dom[n].kind # "VIDEO") =>
         /\ n # Root => ~FilterRejects(n)
         /\ \A c \in SeqToSet(Kept(n)) :
              Decorated(c) /\ dom[clonedNode[c]].parentNode = clonedNode[n]
         /\ \A c \in SeqToSet(Children(dom, n)) : pc[c] = "returned"

\* The root starts its decoration over a decorated child that holds a
\* decorated grandchild.
PipelineOrderWitness ==
  /\ pc[Root] = "cloneCSSStyle"
  /\ \E c \in SeqToSet(Kept(Root)) :
       /\ Decorated(c)
       /\ \E g \in SeqToSet(Kept(c)) :
            Decorated(g) /\ dom[clonedNode[g]].parentNode = clonedNode[c]

\* C15 -- Decorator sequence: for an element clone the style is written
\* first, then the pseudo-element content is added, then the value is
\* written, each step finding the earlier ones done and the later ones not,
\* and the chain carries the same clone throughout; a clone that is no
\* element (a text node) goes through none of the steps and is handed on as
\* cloneSingleNode made it.
StyleDone(x) == dom[x].style # ""

PseudoDone(n, x) ==
  (n \in pseudo) = (\E y \in SeqToSet(dom[x].childNodes) : dom[y].kind = "STYLE")

\* The value has not been written: an input's clone has the attribute of the
\* source, a textarea's clone only what traversal and pseudo-elements put.
ValueUntouched(n, x) ==
  /\ dom[n].kind = "INPUT" => dom[x].valueAttr = dom[n].valueAttr
  /\ dom[n].kind = "TEXTAREA" =>
       \A y \in SeqToSet(dom[x].childNodes) :
         dom[y].kind = "STYLE" \/ \E c \in Nodes : clonedNode[c] = y

ValueDone(n, x) ==
  /\ dom[n].kind = "INPUT" => dom[x].valueAttr = dom[n].value
  /\ dom[n].kind = "TEXTAREA" =>
       /\ Len(dom[x].childNodes) = 1
       /\ dom[dom[x].childNodes[1]].kind = "#text"
       /\ \A c \in Nodes : clonedNode[c] # dom[x].childNodes[1]

DecoratorSteps ==
  \A n \in Nodes :
    clonedNode[n] # Null =>
      LET x == clonedNode[n] IN
      IF IsElement(dom, x)
      THEN /\ pc[n] = "cloneCSSStyle" =>
                ~StyleDone(x) /\ PseudoDone(n, x) = (n \notin pseudo) /\ ValueUntouched(n, x)
           /\ pc[n] = "clonePseudoElements" =>
                StyleDone(x) /\ PseudoDone(n, x) = (n \notin pseudo) /\ ValueUntouched(n, x)
           /\ pc[n] = "cloneInputValue" =>
                StyleDone(x) /\ PseudoDone(n, x) /\ ValueUntouched(n, x)
           /\ Resolved(n) =>
                /\ StyleDone(x) /\ ValueDone(n, x)
                /\ dom[n].kind # "TEXTAREA" => PseudoDone(n, x)
      ELSE /\ pc[n] \notin {"cloneCSSStyle", "clonePseudoElements", "cloneInputValue"}
           /\ DOMAIN dom[x] = DOMAIN dom[n]
           /\ dom[x].data = dom[n].data /\ dom[x].childNodes = <<>>

DecoratorSequence ==
  /\ []DecoratorSteps
  /\ [][\A n \in Nodes : clonedNode[n] # Null => clonedNode'[n] = clonedNode[n]]_vars

\* The clone of an input with pseudo-element content has been decorated.
DecoratorSequenceWitness ==
  \E n \in Nodes :
    /\ dom[n].kind = "INPUT" /\ n \in pseudo /\ Resolved(n) /\ clonedNode[n] # Null
    /\ StyleDone(clonedNode[n]) /\ PseudoDone(n, clonedNode[n])
    /\ dom[clonedNode[n]].valueAttr = dom[n].value

\* C16 -- Width-quirk rule: the clone of a paragraph whose computed width has
\* a fractional part gets the inline width ceil(w + 1) when the fractional
\* part of w exceeds 0.9 and ceil(w) otherwise; the clone of any other node,
\* and of a paragraph of integral width, gets no width fragment.
WidthQuirkRule ==
  \A n \in DOMAIN computed :
    StyleWritten(n) =>
      LET w == computed[n].width
          ceil == (IF w % 100 > 90 THEN w + 100 + 99 ELSE w + 99) \div 100
          text == dom[clonedNode[n]].style
      IN IF dom[n].kind = "P" /\ w % 100 # 0
         THEN /\ Occurs(text, ";width:" \o ToString(ceil) \o "px;") # {}
              /\ Cardinality(Occurs(text, ";width:")) = 1
         ELSE Occurs(text, ";width:") = {}

\* C17 -- Style quirk patches: the inline style of a clone begins with the
\* copied computed style; after it each of the five fragments stands exactly
\* when its own condition holds, whatever the other four, at most once, and
\* in the order -webkit-background-clip, font-feature-settings, width,
\* align-items, perspective.
QuirkFragments(n) ==
  LET st == computed[n] IN
  << [text |-> ";-webkit-background-clip:" \o st.webkitBackgroundClip \o ";",
      applies |-> st.webkitBackgroundClip # "border-box"],
     [text |-> ";font-feature-settings:" \o st.fontFeatureSettings \o ";",
      applies |-> st.fontFeatureSettings # "\"kern\""],
     [text |-> ";width:", applies |-> dom[n].kind = "P" /\ st.width % 100 # 0],
     [text |-> ";align-items:" \o st.alignItems \o ";", applies |-> st.alignItems # "normal"],
     [text |-> ";perspective:" \o st.perspective \o ";", applies |-> st.perspective # "none"] >>

\* The style text the copy leaves, as the first patch reads it.
CopiedStyle(n) ==
  IF computed[n].cssText # "" THEN computed[n].cssText
  ELSE IF computed[n].props = Props THEN "color: red; top: 0px !important;"
  ELSE IF \E i \in 1..5 : QuirkFragments(n)[i].applies THEN "null" ELSE ""

QuirkPatchOrder ==
  \A n \in DOMAIN computed :
    StyleWritten(n) =>
      LET text == dom[clonedNode[n]].style
          fr == QuirkFragments(n)
          at == [i \in 1..5 |-> Occurs(text, fr[i].text)]
      IN
      /\ SubSeq(text, 1, Len(CopiedStyle(n))) = CopiedStyle(n)
      /\ \A i \in 1..5 : Cardinality(at[i]) = IF fr[i].applies THEN 1 ELSE 0
      /\ \A i, j \in 1..5 : i < j => \A a \in at[i], b \in at[j] : Len(CopiedStyle(n)) <= a /\ a < b

\* All five fragments stand in the style of a paragraph's clone.
QuirkPatchOrderWitness ==
  \E n \in DOMAIN computed :
    /\ pc[n] = "resolved"
    /\ \A i \in 1..5 :
         /\ QuirkFragments(n)[i].applies
         /\ Occurs(dom[clonedNode[n]].style, QuirkFragments(n)[i].text) # {}

\* C18 -- Fail-stop: once a chain has rejected, no node is started (no filter
\* call), no clone is made, no collaborator is called, nothing is appended
\* and no decoration step runs; all that still happens is that the rejection
\* passes from child to parent.
FailStopStep ==
  Failed # {} =>
    /\ dom' = dom /\ clonedNode' = clonedNode /\ dataURL' = dataURL
    /\ \A n \in Nodes : pc'[n] # pc[n] => pc'[n] \in {"rejected", "returned"}
    /\ \A n \in Nodes : pc'[n] = "rejected" => rejection'[n] # NoError

FailStop == [][FailStopStep]_vars

\* The top-level call has rejected for a grandchild of the root; a later child
\* of the root was never started and the root's clone is undecorated.
FailStopWitness ==
  /\ pc[Root] = "rejected"
  /\ \E c \in SeqToSet(Kept(Root)), l \in SeqToSet(Kept(Root)) :
       /\ l > c /\ pc[l] = "idle" /\ pc[c] = "returned" /\ rejection[c] # NoError
       /\ \E g \in SeqToSet(Kept(c)) : pc[g] = "returned" /\ rejection[g] # NoError
  /\ dom[clonedNode[Root]].style = "" /\ dom[clonedNode[Root]].childNodes = <<>>

\* C19 -- One operation in flight: the chains that have started and not
\* settled lie on one path of the traversal from the root (each but the root
\* is a child read by another that waits in its reduce, and none has two
\* such children), all of them but the innermost wait for a child, so at
\* most one collaborator operation is pending and at most one chain is at
\* work on its clone.
Active == { n \in Nodes : pc[n] \notin {"idle", "resolved", "returned", "rejected"} }

Pending == { n \in Nodes : pc[n] \in {"getBlobFromURL", "createImage", "clonePseudoElements"} }

RECURSIVE Descends(_, _)
Descends(n, a) == \E p \in Parents(n) : p = a \/ Descends(p, a)

SingleInFlight ==
  LET active == Active IN
  /\ Cardinality(Pending) <= 1
  /\ Cardinality({ n \in active : pc[n] # "reduce" }) <= 1
  /\ \A a \in active \ {Root} :
       \E p \in active : pc[p] = "reduce" /\ a \in SeqToSet(Children(dom, p))
  /\ \A p \in active :
       Cardinality(active \cap SeqToSet(Children(dom, p))) <= 1

\* createImage is pending for a node two levels down, its ancestors wait,
\* and another image was made before, elsewhere in the tree.
SingleInFlightWitness ==
  \E a, b \in Nodes :
    /\ pc[a] = "createImage" /\ Cardinality(Active) = 3
    /\ pc[b] = "returned" /\ clonedNode[b] # Null /\ dom[clonedNode[b]].kind = "IMG"
    /\ ~Descends(a, b)

\* C20 -- Termination: when every ready callback runs and every collaborator
\* call settles, the top-level call settles: it resolves with a clone or it
\* rejects. cloneNode is invoked at most once for a source node: a chain that
\* has started never starts again.
Settled == pc[Root] = "rejected" \/ (Done /\ clonedNode[Root] # Null)

InvokedOnce == \A n \in Nodes : pc[n] # "idle" => pc'[n] \notin {"idle", "cloneSingleNode"} \/ pc'[n] = pc[n]

Termination == <>Settled /\ [][InvokedOnce]_vars

\* The call has resolved after visiting every node, one of them through a slot.
TerminationWitness ==
  /\ Settled /\ Done
  /\ \A n \in Nodes \ {Root} : pc[n] = "returned"
  /\ \E sl \in Nodes : dom[sl].kind = "SLOT" /\ Children(dom, sl) # <<>>

====
